---- MODULE Spec2Model ----
(***************************************************************************)
(* A model of songbook/song.py: the Song object, its constructor (load,    *)
(* parse, keyword overrides, filename derivation) and its accessors.       *)
(*                                                                         *)
(* Encoding of Python values:                                              *)
(*   str            a sequence of one-character strings                    *)
(*   None           the one-element sequence None (no str equals it)       *)
(*   an attribute that was never assigned: the sequence Unset              *)
(*   list of str    a sequence of sequences                                *)
(*   set of tags    a set of strings                                       *)
(* The HTML tree that BeautifulSoup builds is a sequence of nodes, the     *)
(* contents of <body>; a node is a record [tag, cls, s, kids], a text node *)
(* has tag "#text" and its characters in s.                                *)
(***************************************************************************)
EXTENDS Integers, Sequences, FiniteSets, TLC

VARIABLES src, html, fs, kwargs,
          phase, err, op,
          markup, filename, title, artist, chords, body, tags

vars == <<src, html, fs, kwargs, phase, err, op,
          markup, filename, title, artist, chords, body, tags>>

env == <<src, html, fs, kwargs>>

----------------------------------------------------------------------------
(* Bounds of the model *)

MaxHdrLen == 4
MaxSpans == 3
MaxChordChars == 4
MaxNodes == 3

----------------------------------------------------------------------------
(* Python values *)

None == <<"None">>
Unset == <<"Unset">>
NoErr == [type |-> "none", at |-> "none"]
Raised(type, at) == [type |-> type, at |-> at]

(* str.isspace for the characters of the model *)
IsSpace(c) == c \in {" ", "\n"}

RECURSIVE LStrip(_)
LStrip(s) ==
    IF Len(s) > 0 /\ IsSpace(Head(s)) THEN LStrip(Tail(s)) ELSE s

RECURSIVE RStrip(_)
RStrip(s) ==
    IF Len(s) > 0 /\ IsSpace(s[Len(s)]) THEN RStrip(SubSeq(s, 1, Len(s) - 1)) ELSE s

(* str.strip() *)
Strip(s) == RStrip(LStrip(s))

RECURSIVE SplitAcc(_, _, _, _)
SplitAcc(s, sep, maxsplit, cur) ==
    IF Len(s) = 0 THEN <<cur>>
    ELSE IF Head(s) = sep /\ maxsplit > 0
         THEN <<cur>> \o SplitAcc(Tail(s), sep, maxsplit - 1, <<>>)
         ELSE SplitAcc(Tail(s), sep, maxsplit, Append(cur, Head(s)))

(* str.split(sep, maxsplit) for a one-character separator *)
Split(s, sep, maxsplit) == SplitAcc(s, sep, maxsplit, <<>>)

RECURSIVE SplitWSAcc(_, _)
SplitWSAcc(s, cur) ==
    LET flush == IF Len(cur) = 0 THEN <<>> ELSE <<cur>>
    IN  IF Len(s) = 0 THEN flush
        ELSE IF IsSpace(Head(s)) THEN flush \o SplitWSAcc(Tail(s), <<>>)
        ELSE SplitWSAcc(Tail(s), Append(cur, Head(s)))

(* str.split() without arguments: runs of whitespace separate, no empty tokens *)
SplitWS(s) == SplitWSAcc(s, <<>>)

(* str.lower() on the characters of the model *)
LowerChar(c) == IF c = "T" THEN "t" ELSE IF c = "N" THEN "n" ELSE c

Lower(s) == [i \in 1..Len(s) |-> LowerChar(s[i])]

(* '{}'.format(v): None prints as the four characters None *)
Format(v) == IF v = None THEN <<"N", "o", "n", "e">> ELSE v

----------------------------------------------------------------------------
(* The HTML tree (bs4) *)

TextNode(s) == [tag |-> "#text", cls |-> "", s |-> s, kids |-> <<>>]
Elem(tag, cls, kids) == [tag |-> tag, cls |-> cls, s |-> <<>>, kids |-> kids]

RECURSIVE TextOf(_)
RECURSIVE TextOfAll(_)
TextOfAll(ns) ==
    IF Len(ns) = 0 THEN <<>> ELSE TextOf(Head(ns)) \o TextOfAll(Tail(ns))

(* Tag.text: the strings of the subtree, concatenated *)
TextOf(n) == IF n.tag = "#text" THEN n.s ELSE TextOfAll(n.kids)

RECURSIVE FindFrom(_, _, _)
FindFrom(ns, tag, i) ==
    IF i > Len(ns) THEN <<>>
    ELSE IF ns[i].tag = tag THEN <<i>>
    ELSE LET sub == FindFrom(ns[i].kids, tag, 1)
         IN  IF Len(sub) > 0 THEN <<i>> \o sub ELSE FindFrom(ns, tag, i + 1)

(* soup.h1: the path of the first h1 in document order, <<>> when there is none *)
FindH1(ns) == FindFrom(ns, "h1", 1)

RECURSIVE NodeAt(_, _)
NodeAt(ns, path) ==
    IF Len(path) = 1 THEN ns[path[1]] ELSE NodeAt(ns[path[1]].kids, Tail(path))

(* mutant: the header is found but never detached from the tree *)
RemoveNothing(ns, path) == ns

RECURSIVE RemoveAt(_, _)
(* Tag.extract(): the tree without the node at path *)
RemoveAt(ns, path) ==
    IF Len(path) = 1
    THEN SubSeq(ns, 1, path[1] - 1) \o SubSeq(ns, path[1] + 1, Len(ns))
    ELSE [ns EXCEPT ![path[1]].kids = RemoveAt(@, Tail(path))]

RECURSIVE FindAll(_, _, _)
(* soup.findAll(tag, {'class': cls}): the matching elements in document order *)
FindAll(ns, tag, cls) ==
    IF Len(ns) = 0 THEN <<>>
    ELSE LET n == Head(ns)
         IN  (IF n.tag = tag /\ n.cls = cls THEN <<n>> ELSE <<>>)
             \o FindAll(n.kids, tag, cls)
             \o FindAll(Tail(ns), tag, cls)

RECURSIVE Str(_)
RECURSIVE StrAll(_)
StrAll(ns) ==
    IF Len(ns) = 0 THEN <<>> ELSE Str(Head(ns)) \o StrAll(Tail(ns))

(* str(node): a text node is its characters, an element its open tag, its
   children and its close tag *)
Str(n) ==
    IF n.tag = "#text" THEN n.s
    ELSE (IF n.cls = "" THEN <<"<", n.tag, ">">> ELSE <<"<", n.tag, "class=", n.cls, ">">>)
         \o StrAll(n.kids)
         \o <<"</", n.tag, ">">>

(* ''.join(parts) *)
Join(parts) == StrAll(parts)

----------------------------------------------------------------------------
(* Song.__parse *)

InList(x, l) == \E i \in 1..Len(l) : l[i] = x

RECURSIVE ChordLoopNoDedup(_, _)
(* mutant: every span's chord name is appended, seen before or not *)
ChordLoopNoDedup(spans, chordlist) ==
    IF Len(spans) = 0 THEN [ok |-> TRUE, list |-> chordlist]
    ELSE LET toks == SplitWS(TextOf(Head(spans)))
         IN  IF Len(toks) = 0 THEN [ok |-> FALSE, list |-> chordlist]
             ELSE ChordLoopNoDedup(Tail(spans), Append(chordlist, toks[1]))

RECURSIVE ChordLoop(_, _)
(* the loop over the chord spans; split().pop(0) of a span without a token
   raises IndexError *)
ChordLoop(spans, chordlist) ==
    IF Len(spans) = 0 THEN [ok |-> TRUE, list |-> chordlist]
    ELSE LET toks == SplitWS(TextOf(Head(spans)))
         IN  IF Len(toks) = 0 THEN [ok |-> FALSE, list |-> chordlist]
             ELSE LET cname == toks[1]
                  IN  ChordLoop(Tail(spans),
                                IF InList(cname, chordlist) THEN chordlist
                                ELSE Append(chordlist, cname))

(* mutant: split('-') without the limit of one split *)
SplitHeaderEveryDash(text) ==
    LET parts == Split(text, "-", Len(text))
    IN  IF Len(parts) = 2
        THEN [title |-> Strip(parts[1]), artist |-> Strip(parts[2])]
        ELSE [title |-> Strip(text), artist |-> None]

(* title, artist = [i.strip() for i in hdr.text.split('-', 1)], and the
   ValueError branch when the split gives one part *)
SplitHeader(text) ==
    LET parts == Split(text, "-", 1)
    IN  IF Len(parts) = 2
        THEN [title |-> Strip(parts[1]), artist |-> Strip(parts[2])]
        ELSE [title |-> Strip(text), artist |-> None]

(* mutant: a rendering without a header parses, with an empty title *)
ParseHeaderOptional(m, h) ==
    LET path == FindH1(h)
        soup == IF Len(path) = 0 THEN h ELSE RemoveAt(h, path)
        hd == IF Len(path) = 0 THEN [title |-> <<>>, artist |-> None]
              ELSE SplitHeader(TextOf(NodeAt(h, path)))
        loop == ChordLoop(FindAll(soup, "span", "chord"), <<>>)
    IN  IF m = None \/ ~loop.ok
        THEN [err |-> Raised("AttributeError", "markdown"), title |-> Unset,
              artist |-> Unset, chords |-> <<>>, body |-> Unset]
        ELSE [err |-> NoErr, title |-> hd.title, artist |-> hd.artist,
              chords |-> loop.list, body |-> Join(soup)]

(* The result of __parse on the markup m whose rendering is the tree h:
   either the exception it raises or the attributes it sets. *)
Parse(m, h) ==
    LET fail(type, at) == [err |-> Raised(type, at), title |-> Unset, artist |-> Unset,
                           chords |-> <<>>, body |-> Unset]
    IN  IF m = None THEN fail("AttributeError", "markdown")
        ELSE LET path == FindH1(h)
             IN  IF Len(path) = 0 THEN fail("AttributeError", "soup.h1.extract")
                 ELSE LET hdr == NodeAt(h, path)
                          soup == RemoveAt(h, path)
                          hd == SplitHeader(TextOf(hdr))
                          loop == ChordLoop(FindAll(soup, "span", "chord"), <<>>)
                      IN  IF ~loop.ok THEN fail("IndexError", "pop")
                          ELSE [err |-> NoErr, title |-> hd.title, artist |-> hd.artist,
                                chords |-> loop.list, body |-> Join(soup)]

----------------------------------------------------------------------------
(* Song.__load and Song.__init__ *)

(* mutant: the except clause catches every exception of the read *)
LoadCatchAll(f) ==
    IF f.read = "ok" THEN [err |-> NoErr, markup |-> f.content]
    ELSE [err |-> NoErr, markup |-> None]

(* __load(sourcefile): the text read, None after a caught IOError/OSError,
   or the UnicodeDecodeError (a ValueError) that the except clause lets through *)
Load(f) ==
    IF f.read = "ok" THEN [err |-> NoErr, markup |-> f.content]
    ELSE IF f.read = "OSError" THEN [err |-> NoErr, markup |-> None]
    ELSE [err |-> Raised("UnicodeDecodeError", "__load"), markup |-> Unset]

Range(l) == {l[i] : i \in 1..Len(l)}

(* setattr(self, key, val) on the object o through the property setters;
   the artist setter reads the undefined name 'artist', chords has no setter *)
SetAttr(o, key, val) ==
    IF key = "markup" THEN [o EXCEPT !.markup = val]
    ELSE IF key = "filename" THEN [o EXCEPT !.filename = val]
    ELSE IF key = "title" THEN [o EXCEPT !.title = val]
    ELSE IF key = "tags" THEN [o EXCEPT !.tags = Range(val)]
    ELSE IF key = "artist" THEN [o EXCEPT !.err = Raised("NameError", "artist.setter")]
    ELSE [o EXCEPT !.err = Raised("AttributeError", "chords")]

RECURSIVE ApplyKwargs(_, _)
(* for key, val in kwargs.items(): setattr(self, key, val) *)
ApplyKwargs(o, kw) ==
    IF Len(kw) = 0 \/ o.err # NoErr THEN o
    ELSE ApplyKwargs(SetAttr(o, Head(kw)[1], Head(kw)[2]), Tail(kw))

(* ('{0.title}_-_{0.artist}'.format(self)).lower() *)
DerivedFilename(o) == Lower(Format(o.title) \o <<"_", "-", "_">> \o Format(o.artist))

(* The object when __init__(s, **kw) returns or raises; err tells which. *)
InitSong(s, f, h, kw) ==
    LET blank == [err |-> NoErr, markup |-> Unset, filename |-> Unset, title |-> Unset,
                  artist |-> Unset, chords |-> <<>>, body |-> Unset, tags |-> {}]
        ld == IF f.exists THEN Load(f) ELSE [err |-> NoErr, markup |-> s]
    IN  IF ld.err # NoErr THEN [blank EXCEPT !.err = ld.err]
        ELSE LET o1 == [blank EXCEPT !.markup = ld.markup, !.filename = s]
                 p == Parse(o1.markup, h)
             IN  IF p.err # NoErr THEN [o1 EXCEPT !.err = p.err]
                 ELSE LET o2 == [o1 EXCEPT !.title = p.title, !.artist = p.artist,
                                           !.chords = p.chords, !.body = p.body,
                                           !.tags = {}]
                          o3 == ApplyKwargs(o2, kw)
                      IN  IF o3.err # NoErr THEN o3
                          ELSE IF o3.filename = None
                               THEN [o3 EXCEPT !.filename = DerivedFilename(o3)]
                               ELSE o3

(* song = Song(src, **kwargs) *)
Construct ==
    /\ phase = "init"
    /\ LET o == InitSong(src, fs, html, kwargs)
       IN  /\ phase' = IF o.err = NoErr THEN "constructed" ELSE "raised"
           /\ err' = o.err
           /\ markup' = o.markup
           /\ filename' = o.filename
           /\ title' = o.title
           /\ artist' = o.artist
           /\ chords' = o.chords
           /\ body' = o.body
           /\ tags' = o.tags
    /\ op' = <<"Song", src>>
    /\ UNCHANGED env

----------------------------------------------------------------------------
(* The accessors, called on a constructed Song *)

NewTexts == {<<"X">>, None}
Tags == {"t1", "t2"}
TagLists == {<<>>, <<"t1">>, <<"t2", "t2">>, <<"t1", "t2">>}

(* mutant: the setter parses the new markup again *)
SetMarkupReparse(v) ==
    /\ phase = "constructed"
    /\ markup' = v
    /\ title' = v
    /\ artist' = None
    /\ chords' = <<>>
    /\ body' = <<>>
    /\ op' = <<"markup", v>>
    /\ err' = NoErr
    /\ UNCHANGED <<env, phase, filename, tags>>

(* song.markup = v *)
SetMarkup(v) ==
    /\ phase = "constructed"
    /\ markup' = v
    /\ op' = <<"markup", v>>
    /\ err' = NoErr
    /\ UNCHANGED <<env, phase, filename, title, artist, chords, body, tags>>

(* song.filename = v *)
SetFilename(v) ==
    /\ phase = "constructed"
    /\ filename' = v
    /\ op' = <<"filename", v>>
    /\ err' = NoErr
    /\ UNCHANGED <<env, phase, markup, title, artist, chords, body, tags>>

(* song.artist = v: the setter assigns the undefined name 'artist' *)
SetArtist(v) ==
    /\ phase = "constructed"
    /\ op' = <<"artist", v>>
    /\ err' = Raised("NameError", "artist.setter")
    /\ UNCHANGED <<env, phase, markup, filename, title, artist, chords, body, tags>>

(* song.title = v *)
SetTitle(v) ==
    /\ phase = "constructed"
    /\ title' = v
    /\ op' = <<"title", v>>
    /\ err' = NoErr
    /\ UNCHANGED <<env, phase, markup, filename, artist, chords, body, tags>>

(* song.chords = v: the property has no setter *)
SetChords(v) ==
    /\ phase = "constructed"
    /\ op' = <<"chords", v>>
    /\ err' = Raised("AttributeError", "chords")
    /\ UNCHANGED <<env, phase, markup, filename, title, artist, chords, body, tags>>

(* song.tags = taglist *)
SetTags(taglist) ==
    /\ phase = "constructed"
    /\ tags' = Range(taglist)
    /\ op' = <<"tags", taglist>>
    /\ err' = NoErr
    /\ UNCHANGED <<env, phase, markup, filename, title, artist, chords, body>>

(* mutant: the tag replaces the set *)
TagReplace(t) ==
    /\ phase = "constructed"
    /\ tags' = {t}
    /\ op' = <<"tag", t>>
    /\ err' = NoErr
    /\ UNCHANGED <<env, phase, markup, filename, title, artist, chords, body>>

(* song.tag(t) *)
Tag(t) ==
    /\ phase = "constructed"
    /\ tags' = IF t \notin tags THEN tags \cup {t} ELSE tags
    /\ op' = <<"tag", t>>
    /\ err' = NoErr
    /\ UNCHANGED <<env, phase, markup, filename, title, artist, chords, body>>

(* set.pop(tag): set.pop takes no argument, the call raises TypeError *)
SetPop(s, t) == [err |-> Raised("TypeError", "set.pop"), set |-> s]

(* song.untag(t) *)
Untag(t) ==
    /\ phase = "constructed"
    /\ LET r == IF t \in tags THEN SetPop(tags, t) ELSE [err |-> NoErr, set |-> tags]
       IN  /\ tags' = r.set
           /\ err' = r.err
    /\ op' = <<"untag", t>>
    /\ UNCHANGED <<env, phase, markup, filename, title, artist, chords, body>>

(* song.clear_tags() *)
ClearTags ==
    /\ phase = "constructed"
    /\ tags' = {}
    /\ op' = <<"clear_tags", "">>
    /\ err' = NoErr
    /\ UNCHANGED <<env, phase, markup, filename, title, artist, chords, body>>

----------------------------------------------------------------------------
(* Inputs *)

SrcText == <<"S">>
FileText == <<"F">>

NoFile == [exists |-> FALSE, read |-> "none", content |-> Unset]
FileCases == {[exists |-> TRUE, read |-> r, content |-> FileText] :
                 r \in {"ok", "OSError", "UnicodeDecodeError"}}

TextsUpTo(A, n) == UNION {[1..k -> A] : k \in 0..n}

HdrChars == {"T", " ", "-"}
ChordChars == {"a", "b", " "}

H1(kids) == Elem("h1", "", kids)
P(kids) == Elem("p", "", kids)
Chord(t) == Elem("span", "chord", <<TextNode(t)>>)

(* rendered markup with every header text up to MaxHdrLen characters *)
HeaderDocs ==
    {<<H1(<<TextNode(t)>>), P(<<TextNode(<<"x">>), Chord(<<"a">>)>>)>> :
        t \in TextsUpTo(HdrChars, MaxHdrLen)}

RECURSIVE SpanTexts(_, _)
(* the sequences of k span texts of at most n characters in all *)
SpanTexts(k, n) ==
    IF k = 0 THEN {<<>>}
    ELSE UNION {{<<t>> \o r : r \in SpanTexts(k - 1, n - Len(t))} :
                   t \in TextsUpTo(ChordChars, n)}

(* rendered markup with up to MaxSpans chord spans in one paragraph *)
ChordDocs ==
    {<<H1(<<TextNode(<<"T", "-", "T">>)>>), P([i \in 1..Len(ts) |-> Chord(ts[i])])>> :
        ts \in UNION {SpanTexts(k, MaxChordChars) : k \in 0..MaxSpans}}

Blocks ==
    { H1(<<TextNode(<<"T", "-", "T">>)>>),
      H1(<<TextNode(<<"T">>), Chord(<<"b">>)>>),
      P(<<TextNode(<<"x">>), Chord(<<"a">>)>>),
      P(<<Elem("span", "note", <<TextNode(<<"b">>)>>), Chord(<<"a", " ", "b">>)>>),
      Elem("blockquote", "", <<H1(<<TextNode(<<"T">>)>>), P(<<Chord(<<"b">>)>>)>>),
      TextNode(<<"\n">>) }

(* rendered markup of up to MaxNodes top-level nodes *)
BodyDocs == UNION {[1..k -> Blocks] : k \in 0..MaxNodes}

SmallDocs ==
    { <<H1(<<TextNode(<<"T", " ", "-", " ", "T">>)>>), P(<<Chord(<<"a">>)>>)>>,
      <<H1(<<TextNode(<<"T">>)>>)>>,
      <<P(<<TextNode(<<"x">>)>>)>> }

KwargCases ==
    { <<>>,
      <<<<"filename", None>>>>,
      <<<<"filename", <<"X">>>>, <<"title", <<"X">>>>>>,
      <<<<"tags", <<"t1", "t1">>>>>>,
      <<<<"title", <<"X">>>>, <<"artist", <<"X">>>>>>,
      <<<<"markup", <<"X">>>>, <<"filename", None>>>> }

Blank ==
    /\ phase = "init"
    /\ err = NoErr
    /\ op = <<"none", "">>
    /\ markup = Unset
    /\ filename = Unset
    /\ title = Unset
    /\ artist = Unset
    /\ chords = <<>>
    /\ body = Unset
    /\ tags = {}

Init ==
    /\ src = SrcText
    /\ html \in SmallDocs
    /\ fs \in {NoFile} \cup FileCases
    /\ kwargs \in KwargCases
    /\ Blank

Next ==
    \/ Construct
    \/ \E v \in NewTexts : SetMarkup(v)
    \/ \E v \in NewTexts : SetFilename(v)
    \/ \E v \in NewTexts : SetArtist(v)
    \/ \E v \in NewTexts : SetTitle(v)
    \/ \E v \in NewTexts : SetChords(v)
    \/ \E l \in TagLists : SetTags(l)
    \/ \E t \in Tags : Tag(t)
    \/ \E t \in Tags : Untag(t)
    \/ ClearTags

Spec == Init /\ [][Next]_vars

(* construction alone, over the families of rendered markup *)
InitParse ==
    /\ src = SrcText
    /\ html \in HeaderDocs \cup ChordDocs \cup BodyDocs
    /\ fs = NoFile
    /\ kwargs = <<>>
    /\ Blank

NextParse == Construct

SpecParse == InitParse /\ [][NextParse]_vars

----------------------------------------------------------------------------
(* Vocabulary of the properties, stated on strings and not on the code's
   helpers *)

(* r is s without its leading and trailing whitespace *)
IsTrimOf(r, s) ==
    \E i \in 1..(Len(s) + 1) : \E j \in 0..Len(s) :
        /\ r = SubSeq(s, i, j)
        /\ \A k \in 1..(i - 1) : IsSpace(s[k])
        /\ \A k \in (j + 1)..Len(s) : IsSpace(s[k])
        /\ Len(r) > 0 => (~IsSpace(r[1]) /\ ~IsSpace(r[Len(r)]))

(* x is the first whitespace-delimited token of s *)
IsFirstToken(x, s) ==
    \E i \in 1..Len(s) : \E j \in i..Len(s) :
        /\ x = SubSeq(s, i, j)
        /\ \A k \in 1..(i - 1) : IsSpace(s[k])
        /\ \A k \in i..j : ~IsSpace(s[k])
        /\ j < Len(s) => IsSpace(s[j + 1])

(* the text of the header of the rendered markup *)
HeaderText == TextOf(NodeAt(html, FindH1(html)))

HasHeader == Len(FindH1(html)) > 0

(* the texts of the chord spans outside the header, in document order *)
SpanTextsOf ==
    LET spans == FindAll(RemoveAt(html, FindH1(html)), "span", "chord")
    IN  [i \in 1..Len(spans) |-> TextOf(spans[i])]

(* the serialization of the whole rendered body, header included *)
FullBody == StrAll(html)

IsH1Open(seq, i) == i + 1 <= Len(seq) /\ seq[i] = "<" /\ seq[i + 1] = "h1"
IsH1Close(seq, i) == i + 1 <= Len(seq) /\ seq[i] = "</" /\ seq[i + 1] = "h1"
H1Count(seq) == Cardinality({i \in 1..Len(seq) : IsH1Open(seq, i)})

----------------------------------------------------------------------------
(* C1: the header text is split at its first '-' only: with a '-', title is
   the trimmed part before the first '-' and artist the trimmed rest (further
   '-' included); without one, title is the trimmed text and artist is None,
   not the empty string. *)
C1_HeaderSplit ==
    phase = "constructed" =>
        LET t == HeaderText
            dashes == {i \in 1..Len(t) : t[i] = "-"}
        IN  IF dashes # {}
            THEN LET d == CHOOSE i \in dashes : \A k \in dashes : i <= k
                 IN  /\ IsTrimOf(title, SubSeq(t, 1, d - 1))
                     /\ IsTrimOf(artist, SubSeq(t, d + 1, Len(t)))
            ELSE /\ IsTrimOf(title, t)
                 /\ artist = None
                 /\ artist # <<>>

(* a header with two '-' and surrounding whitespace was parsed *)
C1_Witness ==
    /\ phase = "constructed"
    /\ Cardinality({i \in 1..Len(HeaderText) : HeaderText[i] = "-"}) = 2
    /\ IsSpace(HeaderText[1])
    /\ title = <<"T">>
    /\ InList("-", artist)

(* C2: chords is the first-seen-order de-duplication of the first
   whitespace-delimited tokens of the chord spans: no duplicates, exactly the
   names that occur, ordered by first occurrence. *)
C2_ChordsDedup ==
    phase = "constructed" =>
        LET ts == SpanTextsOf
            first(c) == CHOOSE i \in 1..Len(ts) :
                            /\ IsFirstToken(c, ts[i])
                            /\ \A k \in 1..(i - 1) : ~IsFirstToken(c, ts[k])
        IN  /\ \A i, j \in 1..Len(chords) : i # j => chords[i] # chords[j]
            /\ \A i \in 1..Len(ts) : \E k \in 1..Len(chords) : IsFirstToken(chords[k], ts[i])
            /\ \A k \in 1..Len(chords) : \E i \in 1..Len(ts) : IsFirstToken(chords[k], ts[i])
            /\ \A i, j \in 1..Len(chords) : i < j => first(chords[i]) < first(chords[j])

(* three spans, the third repeating the first, one of them with text after
   the chord name *)
C2_Witness ==
    /\ phase = "constructed"
    /\ Len(SpanTextsOf) = 3
    /\ Len(chords) = 2
    /\ IsFirstToken(chords[1], SpanTextsOf[1])
    /\ IsFirstToken(chords[1], SpanTextsOf[3])
    /\ IsFirstToken(chords[2], SpanTextsOf[2])
    /\ \E i \in 1..3 : Len(SplitWS(SpanTextsOf[i])) = 2

(* C3, as stated: without a level-1 header in the rendered markup the
   construction fails with a MalformedInput error and no Song is produced. *)
C3_MalformedInput ==
    (phase # "init" /\ ~HasHeader) =>
        (phase = "raised" /\ err.type = "MalformedInput")

(* C3, amended: without a level-1 header the construction fails with the
   AttributeError of dereferencing the missing header, and no Song is
   produced. *)
C3_NoHeaderRaises ==
    (phase # "init" /\ ~HasHeader) =>
        (phase = "raised" /\ err = Raised("AttributeError", "soup.h1.extract"))

(* a non-empty rendering without a header was given and the constructor raised *)
C3_Witness ==
    /\ phase = "raised"
    /\ ~HasHeader
    /\ Len(html) = 2

(* C4: untag(t) never fails and leaves the tag set without t, all other tags
   kept. *)
C4_Untag ==
    [][(phase = "constructed" /\ op'[1] = "untag") =>
          (err' = NoErr /\ tags' = tags \ {op'[2]})]_vars

(* C5: assigning title, artist, filename or markup succeeds, the field then
   reads as the value assigned, and the other three are unchanged. *)
C5_Settable ==
    [][(phase = "constructed" /\ op'[1] \in {"title", "artist", "filename", "markup"}) =>
          /\ err' = NoErr
          /\ (IF op'[1] = "title" THEN title' = op'[2] ELSE title' = title)
          /\ (IF op'[1] = "artist" THEN artist' = op'[2] ELSE artist' = artist)
          /\ (IF op'[1] = "filename" THEN filename' = op'[2] ELSE filename' = filename)
          /\ (IF op'[1] = "markup" THEN markup' = op'[2] ELSE markup' = markup)]_vars

(* C6: a Song built from raw markup without a filename has the filename
   lower(title + "_-_" + artist). *)
C6_DerivedFilename ==
    (/\ phase = "constructed"
     /\ op[1] = "Song"
     /\ ~fs.exists
     /\ \A i \in 1..Len(kwargs) : kwargs[i][1] # "filename") =>
        filename = Lower(Format(title) \o <<"_", "-", "_">> \o Format(artist))

(* C7, as stated: whenever reading the existing source fails, the loader does
   not raise, markup is left None and the parse of it aborts construction. *)
C7_LoaderNeverRaises ==
    (phase # "init" /\ fs.exists /\ fs.read # "ok") =>
        (phase = "raised" /\ err.at # "__load" /\ markup = None)

(* C7, amended: after an IOError/OSError the loader does not raise, markup is
   None and the parse of it aborts construction; a decode error leaves the
   loader as UnicodeDecodeError; either way no Song is produced. *)
C7_ReadFailure ==
    (phase # "init" /\ fs.exists /\ fs.read # "ok") =>
        /\ phase = "raised"
        /\ fs.read = "OSError" =>
              (markup = None /\ err = Raised("AttributeError", "markdown"))
        /\ fs.read = "UnicodeDecodeError" =>
              (markup = Unset /\ err = Raised("UnicodeDecodeError", "__load"))

(* the read failed with an OSError and the constructor raised in the parse *)
C7_Witness ==
    /\ phase = "raised"
    /\ fs.exists
    /\ fs.read = "OSError"
    /\ markup = None
    /\ err.at = "markdown"

(* the body is the serialization of the rendered body with the stretch of the
   first level-1 header cut out *)
BodyIsRestAfterFirstHeader ==
    LET full == FullBody
        a == CHOOSE i \in 1..Len(full) :
                 IsH1Open(full, i) /\ \A k \in 1..(i - 1) : ~IsH1Open(full, k)
        b == CHOOSE i \in a..Len(full) :
                 IsH1Close(full, i) /\ \A k \in a..(i - 1) : ~IsH1Close(full, k)
    IN  body = SubSeq(full, 1, a - 1) \o SubSeq(full, b + 3, Len(full))

(* C8, as stated: after a successful parse no level-1 header element remains
   in the body, with several headers in the rendering too, and the body is the
   concatenation of the remaining top-level nodes. *)
C8_NoHeaderInBody ==
    phase = "constructed" =>
        (H1Count(body) = 0 /\ BodyIsRestAfterFirstHeader)

(* C8, amended: the first level-1 header in document order, and only it, is
   removed: the body is the concatenation of what remains, with one header
   less than the rendering, hence none when the rendering has exactly one. *)
C8_FirstHeaderRemoved ==
    phase = "constructed" =>
        /\ BodyIsRestAfterFirstHeader
        /\ H1Count(body) = H1Count(FullBody) - 1
        /\ H1Count(FullBody) = 1 => H1Count(body) = 0

(* a rendering with a paragraph and then two headers was parsed: the second
   header is still in the body *)
C8_Witness ==
    /\ phase = "constructed"
    /\ Len(html) = 3
    /\ html[1].tag = "p"
    /\ html[2].tag = "h1"
    /\ html[3].tag = "h1"
    /\ H1Count(body) = 1

(* C9: tag(t) yields tags \cup {t} and a second tag(t) changes nothing; a new
   Song without a tags override has no tags; clear_tags() empties the set. *)
C9_TagIdempotent ==
    [][/\ (phase = "constructed" /\ op'[1] = "tag") =>
              (err' = NoErr /\ tags' = tags \cup {op'[2]})
       /\ (phase = "constructed" /\ op[1] = "tag" /\ op'[1] = "tag" /\ op'[2] = op[2]) =>
              tags' = tags
       /\ (phase = "constructed" /\ op'[1] = "clear_tags") => tags' = {}
       /\ (phase = "init" /\ phase' = "constructed"
             /\ \A i \in 1..Len(kwargs) : kwargs[i][1] # "tags") => tags' = {}]_vars

(* a second tag was added to a set that held another one *)
C9_Witness ==
    /\ phase = "constructed"
    /\ op[1] = "tag"
    /\ op[2] = "t2"
    /\ tags = {"t1", "t2"}

(* C10: after construction no accessor changes chords or body, and assigning
   markup leaves title, artist, chords and body as parsed. *)
C10_ParsedOnce ==
    [][phase = "constructed" =>
          /\ chords' = chords
          /\ body' = body
          /\ op'[1] = "markup" => (title' = title /\ artist' = artist)]_vars

(* markup was replaced and the parsed attributes are those of the source *)
C10_Witness ==
    /\ phase = "constructed"
    /\ op[1] = "markup"
    /\ markup = <<"X">>
    /\ title = <<"T">>
    /\ artist = <<"T">>
    /\ Len(chords) = 1
    /\ Len(body) > 0

====
